---- MODULE Spec2Model ----
(***************************************************************************)
(* Pricing-and-invoicing core of the Smart Pricing backend:                *)
(*   InvoiceGenerator   (backend/app/services/invoice_generator.py)        *)
(*   ShippingEstimator  (backend/app/services/shipping_estimator.py)       *)
(*   PricingEngine      (backend/app/services/pricing_engine.py)           *)
(*   AdvancedPricingEngine (backend/app/services/advanced_pricing_engine.py)*)
(* and the FastAPI endpoints in backend/app/api that call them.            *)
(*                                                                         *)
(* Money is an integer number of micro-dollars (1 dollar = 1000000), so    *)
(* that every rate of the code (0.0875, 0.025, 0.10, ...) applied to an    *)
(* amount of whole cents is exact.  Binary floating-point representation   *)
(* error is not modelled; round(x, 2) is modelled on the exact value.      *)
(***************************************************************************)
EXTENDS Integers, Sequences, FiniteSets, TLC

\* One cent and one dollar in micro-dollars.
Cent == 100 * 100

Dollar == 100 * Cent

\* Largest number of items of a basket.
MaxItems == 2

----------------------------------------------------------------------------
(* Arithmetic helpers                                                      *)

Abs(x) == IF x < 0 THEN -x ELSE x

Max(a, b) == IF a >= b THEN a ELSE b

Min(a, b) == IF a <= b THEN a ELSE b

\* amount * (bp / 10000): a rate of the code written in basis points.
\* Exact whenever amount is a whole number of cents.
MulRate(amount, bp) == (amount \div 10000) * bp

\* round(x, 2) of Python on an amount: the nearest whole cent, a tie going to
\* the even cent (round-half-even on the exact value).
Round2(x) ==
    LET lo == (x \div Cent) * Cent
        r  == x - lo
    IN  IF 2 * r < Cent THEN lo
        ELSE IF 2 * r > Cent THEN lo + Cent
        ELSE IF (lo \div Cent) % 2 = 0 THEN lo ELSE lo + Cent

\* str.upper() on the country codes of the model.
Upper(s) ==
    CASE s = "us" -> "US"
      [] s = "de" -> "DE"
      [] OTHER -> s

RECURSIVE SumSeq(_)
SumSeq(s) == IF s = <<>> THEN 0 ELSE Head(s) + SumSeq(Tail(s))

----------------------------------------------------------------------------
(* schemas.py                                                              *)

CustomerSegment == {"academic", "biotech_startup", "pharma_enterprise"}

\* Optional[float] = None / Optional[str] = None
NoWeight == -1
NoHsCode == "none"

\* Product records (sku, category, weight_kg in grams, base_price, hs_code).
Catalog ==
    { [sku |-> "RGT-1", category |-> "reagents", weight_kg |-> NoWeight,
       base_price |-> 80 * Dollar, hs_code |-> "3822"],
      [sku |-> "INS-1", category |-> "instruments", weight_kg |-> NoWeight,
       base_price |-> 150 * Dollar, hs_code |-> "9999"],
      [sku |-> "CNS-1", category |-> "consumables", weight_kg |-> 0,
       base_price |-> 120 * Dollar, hs_code |-> NoHsCode] }

\* quantity: int carries no constraint in the schema.
Quantities == {-1, 0, 1, 3}

\* unit_price of the item of a product (independent of its base_price).
UnitPriceOf(p) ==
    IF p.category = "reagents" THEN 100 * Dollar ELSE 166 * Dollar + 75 * Cent

BasketItem ==
    { [product |-> p, quantity |-> q, unit_price |-> UnitPriceOf(p)] :
        p \in Catalog, q \in Quantities }

Customer ==
    { [segment |-> s, country |-> c] : s \in CustomerSegment, c \in {"US", "DE"} }

DestinationCountry == {"US", "us", "DE", "FR"}

ItemSeqs == UNION { [1..n -> BasketItem] : n \in 0..MaxItems }

Basket ==
    { [items |-> it, customer |-> cu, destination_country |-> d] :
        it \in ItemSeqs, cu \in Customer, d \in DestinationCountry }

\* The request is well formed in the sense of the data model: a non-empty
\* basket whose quantities are all positive.
ValidBasket(b) ==
    /\ Len(b.items) > 0
    /\ \A i \in 1..Len(b.items) : b.items[i].quantity > 0

----------------------------------------------------------------------------
(* invoice_generator.py                                                    *)

\* self.tariff_rates.get(hs_code, 0.05) with an unmapped code free of duty
TariffRateUnmappedFree(hs_code) ==
    CASE hs_code = "3822" -> 350
      [] hs_code = "9027" -> 250
      [] hs_code = "3926" -> 450
      [] hs_code = "7020" -> 300
      [] OTHER -> 0

\* self.tariff_rates.get(hs_code, 0.05), in basis points
TariffRate(hs_code) ==
    CASE hs_code = "3822" -> 350
      [] hs_code = "9027" -> 250
      [] hs_code = "3926" -> 450
      [] hs_code = "7020" -> 300
      [] OTHER -> 500

\* self.service_fees.get(segment, 0.025), in basis points
ServiceFeeRate(segment) ==
    CASE segment = "academic" -> 200
      [] segment = "biotech_startup" -> 250
      [] segment = "pharma_enterprise" -> 150
      [] segment = "research_institute" -> 200
      [] OTHER -> 250

\* _get_tax_rate(category, country), in basis points
GetTaxRate(category, country) ==
    IF category = "reagents" /\ country = "US" THEN 0
    ELSE CASE country = "US" -> 875
           [] country = "CA" -> 1300
           [] country = "GB" -> 2000
           [] country = "DE" -> 1900
           [] OTHER -> 1000

IsInternational(b) == Upper(b.customer.country) # Upper(b.destination_country)

NoTariff == -1

\* The line item generate builds for one basket item (lines 35-56).
LineTotalBug(item) == item.product.base_price * item.quantity

LineTotal(item) == item.unit_price * item.quantity

LineItem(b, item) ==
    [sku |-> item.product.sku,
     quantity |-> item.quantity,
     unit_price |-> item.unit_price,
     line_total |-> LineTotal(item),
     tax_rate |-> GetTaxRate(item.product.category, b.destination_country),
     tariff_rate |-> IF IsInternational(b) THEN TariffRate(item.product.hs_code)
                     ELSE NoTariff]

\* _calculate_shipping
CalculateShipping(b) ==
    LET item_count == SumSeq([i \in 1..Len(b.items) |-> b.items[i].quantity])
    IN  15 * Dollar + item_count * 2 * Dollar

\* _generate_dynamic_fields with the handling charge of line 250 tested on
\* instruments alone
GenerateDynamicFieldsInstrumentsOnly(b, subtotal) ==
    LET service_fee == MulRate(subtotal, ServiceFeeRate(b.customer.segment))
        has_fragile == \E i \in 1..Len(b.items) :
                          b.items[i].product.category = "instruments"
    IN  <<[field_name |-> "service_fee", field_value |-> service_fee]>>
        \o (IF has_fragile
            THEN <<[field_name |-> "handling_charge", field_value |-> 25 * Dollar]>>
            ELSE <<>>)
        \o (IF IsInternational(b)
            THEN <<[field_name |-> "international_processing", field_value |-> 35 * Dollar]>>
            ELSE <<>>)
        \o <<[field_name |-> "rush_processing", field_value |-> 0]>>

\* _generate_dynamic_fields
GenerateDynamicFields(b, subtotal) ==
    LET service_fee == MulRate(subtotal, ServiceFeeRate(b.customer.segment))
        has_fragile == \E i \in 1..Len(b.items) :
                          b.items[i].product.category \in {"instruments", "lab_equipment"}
    IN  <<[field_name |-> "service_fee", field_value |-> service_fee]>>
        \o (IF has_fragile
            THEN <<[field_name |-> "handling_charge", field_value |-> 25 * Dollar]>>
            ELSE <<>>)
        \o (IF IsInternational(b)
            THEN <<[field_name |-> "international_processing", field_value |-> 35 * Dollar]>>
            ELSE <<>>)
        \o <<[field_name |-> "rush_processing", field_value |-> 0]>>

\* _apply_promotions: the automatic discounts generate puts on the invoice
ApplyPromotionsInternalCapped(b, subtotal) ==
    Max(IF b.customer.segment = "academic" /\ subtotal >= 100 * Dollar
        THEN MulRate(subtotal, 1000) ELSE 0,
        IF subtotal >= 1000 * Dollar THEN MulRate(subtotal, 500) ELSE 0)

ApplyPromotionsInternal(b, subtotal) ==
    LET d1 == IF b.customer.segment = "academic" /\ subtotal >= 100 * Dollar
              THEN MulRate(subtotal, 1000) ELSE 0
        d2 == IF subtotal >= 1000 * Dollar
              THEN d1 + MulRate(subtotal, 500) ELSE d1
    IN  d2

\* The total generate computes from the parts (lines 83-84).
InvoiceTotalBug(subtotal, tax_total, shipping_cost, dynamic_fields) ==
    subtotal + tax_total + shipping_cost
      + SumSeq([i \in 1..Len(dynamic_fields) |-> Max(0, dynamic_fields[i].field_value)])

InvoiceTotal(subtotal, tax_total, shipping_cost, dynamic_fields) ==
    subtotal + tax_total + shipping_cost
      + SumSeq([i \in 1..Len(dynamic_fields) |-> dynamic_fields[i].field_value])

\* The promotion field generate appends (lines 71-80).
PromotionFields(include, promotion_discount) ==
    IF include /\ promotion_discount > 0
    THEN <<[field_name |-> "promotion_discount", field_value |-> -promotion_discount]>>
    ELSE <<>>

\* InvoiceGenerator.generate (invoice_id and created_at, which come from the
\* clock and uuid4, are left out of the record)
Generate(b, include) ==
    LET line_items == [i \in 1..Len(b.items) |-> LineItem(b, b.items[i])]
        subtotal == SumSeq([i \in 1..Len(line_items) |-> line_items[i].line_total])
        tax_total == SumSeq([i \in 1..Len(line_items) |->
                               MulRate(line_items[i].line_total, line_items[i].tax_rate)])
        shipping_cost == CalculateShipping(b)
        promotion_discount == IF include THEN ApplyPromotionsInternal(b, subtotal) ELSE 0
        dynamic_fields == GenerateDynamicFields(b, subtotal)
                            \o PromotionFields(include, promotion_discount)
    IN  [line_items |-> line_items,
         subtotal |-> subtotal,
         tax_total |-> tax_total,
         shipping_cost |-> shipping_cost,
         dynamic_fields |-> dynamic_fields,
         total |-> InvoiceTotal(subtotal, tax_total, shipping_cost, dynamic_fields)]

\* InvoiceGenerator.apply_promotions: the stand-alone preview
ApplyPromotions(b) ==
    LET subtotal == SumSeq([i \in 1..Len(b.items) |->
                              b.items[i].unit_price * b.items[i].quantity])
        academic == b.customer.segment = "academic" /\ subtotal >= 100 * Dollar
        bulk == subtotal >= 1000 * Dollar
        d_academic == MulRate(subtotal, 1000)
        d_bulk == MulRate(subtotal, 2000)
        applied == (IF academic
                    THEN <<[code |-> "ACADEMIC10", discount_amount |-> Round2(d_academic)]>>
                    ELSE <<>>)
                   \o (IF bulk
                       THEN <<[code |-> "BULK20", discount_amount |-> Round2(d_bulk)]>>
                       ELSE <<>>)
        total_discount == (IF academic THEN d_academic ELSE 0)
                            + (IF bulk THEN d_bulk ELSE 0)
    IN  [applied_promotions |-> applied,
         total_discount |-> Round2(total_discount),
         final_subtotal |-> Round2(subtotal - total_discount)]

----------------------------------------------------------------------------
(* Python exceptions: a call either returns a value or raises.             *)

Ok(v) == [raised |-> FALSE, value |-> v]

Raise(e) == [raised |-> TRUE, exc |-> e]

\* v * (num / den); exact whenever den divides v.
Mul(v, num, den) == (v \div den) * num

\* round(n / d) to the nearest integer, for d > 0.
RoundDiv(n, d) == (2 * n + d) \div (2 * d)

----------------------------------------------------------------------------
(* advanced_pricing_engine.py: the historical transaction table.           *)
(* A table is described by what the analyses read from it: per SKU (in     *)
(* order of first appearance) the number of rows, the number of distinct   *)
(* quantile price bins and the coefficient the binned regression of lines  *)
(* 267-279 yields on those rows; whether KMeans and Prophet can be fitted; *)
(* the cluster profiles and the peak months they yield; and, for the       *)
(* promotional analysis, the transactions as it reads them: segment,       *)
(* unit_price, quantity and revenue, one record standing for an equal      *)
(* share of the rows.                                                      *)

NoCoef == 999999

\* pd.DataFrame(): the table ingestion leaves when every source fails
EmptyTable ==
    [empty |-> TRUE, skus |-> <<>>, clusterable |-> FALSE, profiles |-> <<>>,
     prophet_fits |-> FALSE, peak_months |-> {}, base_price_overwritten |-> FALSE,
     transactions |-> <<>>]

\* A table of three SKUs; price_sensitivity of the profiles in tenths, peak
\* months as resample('M') labels (timestamps, written yyyymm).
RealTable ==
    [empty |-> FALSE,
     skus |-> <<[sku |-> "SKU-A", rows |-> 60, bins |-> 5, coef |-> -1500],
                [sku |-> "SKU-B", rows |-> 12, bins |-> 2, coef |-> NoCoef],
                [sku |-> "SKU-C", rows |-> 5, bins |-> 3, coef |-> NoCoef]>>,
     clusterable |-> TRUE,
     profiles |-> [n \in {"Price Sensitive", "High Value", "Frequent Buyers",
                          "Premium", "Bulk Purchasers"} |->
                     IF n = "Price Sensitive" THEN 25 ELSE 8],
     prophet_fits |-> TRUE,
     peak_months |-> {202404, 202410},
     base_price_overwritten |-> FALSE,
     transactions |-> <<[segment |-> "academic", unit_price |-> 50 * Dollar,
                         quantity |-> 2, revenue |-> 100 * Dollar],
                        [segment |-> "enterprise", unit_price |-> 50 * Dollar,
                         quantity |-> 6, revenue |-> 300 * Dollar]>>]

HistoricalTables == {EmptyTable, RealTable}

\* len(self.historical_data[self.historical_data['sku'] == sku])
RowsOf(hd, sku) ==
    LET at == {i \in 1..Len(hd.skus) : hd.skus[i].sku = sku}
    IN  IF at = {} THEN 0 ELSE hd.skus[CHOOSE i \in at : TRUE].rows

\* _fallback_segmentation: price_sensitivity in tenths
FallbackSegmentation ==
    [n \in {"Academic", "Enterprise", "Startup", "Government"} |->
        CASE n = "Academic" -> 18
          [] n = "Enterprise" -> 8
          [] n = "Startup" -> 15
          [] OTHER -> 12]

\* segment_customers_advanced: the profiles returned, and whether lines
\* 233-235 published them in self.customer_segments
SegmentCustomersAdvanced(hd) ==
    IF hd.empty THEN [segments |-> FallbackSegmentation, published |-> FALSE]
    ELSE IF hd.clusterable THEN [segments |-> hd.profiles, published |-> TRUE]
    ELSE [segments |-> FallbackSegmentation, published |-> FALSE]

\* _fallback_seasonality / _fallback_seasonality_enhanced
FallbackSeasonality == [peak_months |-> {3, 4, 9, 10}, seasonality_strength |-> "Medium"]

\* analyze_seasonality: the insights returned, and whether line 348 stored
\* the fitted model
AnalyzeSeasonality(prophet, hd) ==
    IF ~prophet THEN [insights |-> FallbackSeasonality, fitted |-> FALSE]
    ELSE IF hd.empty THEN [insights |-> FallbackSeasonality, fitted |-> FALSE]
    ELSE IF hd.prophet_fits
         THEN [insights |-> [peak_months |-> hd.peak_months,
                             seasonality_strength |-> "High"],
               fitted |-> TRUE]
    ELSE [insights |-> FallbackSeasonality, fitted |-> FALSE]

\* The products model_price_elasticity analyses: the SKU given, or the first
\* ten of the table (line 257).
NoSku == "none"

TopProducts == 10

ProductsToAnalyze(hd, product_sku) ==
    IF product_sku # NoSku THEN {product_sku}
    ELSE {hd.skus[i].sku : i \in 1..Min(TopProducts, Len(hd.skus))}

\* model_price_elasticity: the table it builds (lines 259-290): an entry per
\* analysed SKU with at least 10 rows and at least 3 price bins.
ElasticityResults(hd, product_sku) ==
    LET at == {i \in 1..Len(hd.skus) :
                  /\ hd.skus[i].sku \in ProductsToAnalyze(hd, product_sku)
                  /\ hd.skus[i].rows >= 10
                  /\ hd.skus[i].bins >= 3}
    IN  [k \in {hd.skus[i].sku : i \in at} |->
            hd.skus[CHOOSE i \in at : hd.skus[i].sku = k].coef]

\* self.elasticity_models after model_price_elasticity(product_sku): line
\* 292 replaces the whole table; the empty-data return leaves it alone.
ElasticityModelsAfter(models, hd, product_sku) ==
    IF hd.empty THEN models ELSE ElasticityResults(hd, product_sku)

\* self.historical_data after model_promotional_impact: lines 363-366
\* overwrite base_price and add the discount columns in place.
HistoricalDataAfterPromotionalImpact(hd) ==
    IF hd.empty THEN hd ELSE [hd EXCEPT !.base_price_overwritten = TRUE]

----------------------------------------------------------------------------
(* model_promotional_impact.  A lift and a discount are in thousandths of  *)
(* a percentage point.                                                     *)

\* The value of x / 0 for x > 0 in numpy arithmetic.
Infinity == 2000 * Dollar

\* has_discount of a row (lines 363-366): discount_pct is
\* (1.2 * unit_price - unit_price) / (1.2 * unit_price) * 100 = 16.67 for
\* every unit_price other than 0, and NaN (0 / 0) for unit_price 0, which is
\* not > 5.
HasDiscount(row) == row.unit_price # 0

\* The segments of a table, self.historical_data['segment'].unique()
SegmentsOf(rows) == {rows[i].segment : i \in 1..Len(rows)}

\* max(0, ((mean_with / mean_without) - 1) * 100) for two groups of rows
\* given by their sums and sizes: the ratio of the means is NaN for 0 / 0,
\* which max answers with 0, and infinite for x / 0.
PositiveLift(sum_with, n_with, sum_without, n_without) ==
    IF sum_without = 0
    THEN IF sum_with = 0 THEN 0 ELSE Infinity
    ELSE Max(0, (100000 * (sum_with * n_without - sum_without * n_with))
                    \div (sum_without * n_with))

\* _fallback_promotional_impact
FallbackPromotionalImpact ==
    [returned |-> TRUE,
     overall_impact |-> [revenue_lift |-> 15200,
                         optimal_discount_range |-> [min |-> 5000, max |-> 15000]],
     segment_impact |-> [g \in {"academic", "enterprise", "pharmaceutical"} |->
                            [quantity_lift |->
                                CASE g = "academic" -> 12500
                                  [] g = "enterprise" -> 18300
                                  [] OTHER -> 22100]]]

\* pd.cut(discount_pct, bins=10) of a column whose values are all 16.667:
\* the ten bins span 16.650 to 16.683, and the value lies on the edge of
\* the fifth and the sixth, so that rounding decides which of them is the
\* one with rows.
DiscountBins == { [left |-> 16663, right |-> 16667], [left |-> 16667, right |-> 16670] }

\* _find_optimal_discount_range on the table model_promotional_impact has
\* rewritten
FindOptimalDiscountRange(bin) ==
    [min |-> Max(5000, bin.left), max |-> Min(25000, bin.right)]

\* The sum of a column over the rows of a segment (any segment when
\* segment is "") with or without discount; a revenue in whole dollars.
ColumnSum(rows, segment, discounted, column) ==
    SumSeq([i \in 1..Len(rows) |->
              IF /\ HasDiscount(rows[i]) = discounted
                 /\ (segment = "" \/ rows[i].segment = segment)
              THEN CASE column = "revenue" -> rows[i].revenue \div Dollar
                     [] column = "quantity" -> rows[i].quantity
                     [] OTHER -> 1
              ELSE 0])

\* promotion_analysis['overall_impact'] (lines 371-399)
OverallImpact(rows, bin) ==
    LET n_with == ColumnSum(rows, "", TRUE, "rows")
        n_without == ColumnSum(rows, "", FALSE, "rows")
    IN  IF n_with > 0 /\ n_without > 0
        THEN [revenue_lift |->
                  PositiveLift(ColumnSum(rows, "", TRUE, "revenue"), n_with,
                               ColumnSum(rows, "", FALSE, "revenue"), n_without),
              optimal_discount_range |->
                  [min |-> Max(5000, FindOptimalDiscountRange(bin).min),
                   max |-> Min(25000, FindOptimalDiscountRange(bin).max)]]
        ELSE [revenue_lift |-> 12500,
              optimal_discount_range |-> [min |-> 5000, max |-> 15000]]

\* promotion_analysis[segment + '_impact'] (lines 401-421);
\* response_rate and recommended_discount are left out
SegmentImpact(rows, segment) ==
    LET n_with == ColumnSum(rows, segment, TRUE, "rows")
        n_without == ColumnSum(rows, segment, FALSE, "rows")
    IN  IF n_with > 0 /\ n_without > 0
        THEN [quantity_lift |->
                  PositiveLift(ColumnSum(rows, segment, TRUE, "quantity"), n_with,
                               ColumnSum(rows, segment, FALSE, "quantity"), n_without)]
        ELSE [quantity_lift |-> 8500]

\* model_promotional_impact: the analysis it returns
ModelPromotionalImpact(hd, bin) ==
    IF hd.empty THEN FallbackPromotionalImpact
    ELSE [returned |-> TRUE,
          overall_impact |-> OverallImpact(hd.transactions, bin),
          segment_impact |-> [g \in SegmentsOf(hd.transactions) |->
                                 SegmentImpact(hd.transactions, g)]]

----------------------------------------------------------------------------
(* The optimizer.  A price is in micro-dollars, a multiplier in hundredths, *)
(* expected_margin in thousandths of a percentage point, price_elasticity  *)
(* in thousandths, confidence in tenths of a point.                        *)

SegmentMultiplier(customer_segment) ==
    CASE customer_segment = "academic" -> 85
      [] customer_segment = "enterprise" -> 115
      [] customer_segment = "government" -> 90
      [] customer_segment = "startup" -> 95
      [] customer_segment = "pharmaceutical" -> 120
      [] OTHER -> 100

\* The loop of lines 684-687 run over the thresholds in ascending order: the
\* first threshold reached is 1.
VolumeMultiplierAscending(quantity) == 100

\* The multiplier of the largest threshold not exceeding quantity, 1.0 when
\* there is none.
VolumeMultiplier(quantity) ==
    IF quantity >= 25 THEN 88
    ELSE IF quantity >= 10 THEN 92
    ELSE IF quantity >= 5 THEN 95
    ELSE IF quantity >= 2 THEN 98
    ELSE 100

\* current_price * segment_mult * volume_mult
BaseOptimization(customer_segment, quantity, current_price) ==
    Mul(Mul(current_price, SegmentMultiplier(customer_segment), 100),
        VolumeMultiplier(quantity), 100)

\* 25.0 + ((optimized_price - current_price) / current_price) * 50
BaseMargin(optimized_price, current_price) ==
    25000 + RoundDiv(((optimized_price - current_price) \div 1000) * 5000,
                     current_price \div 10000)

\* _base_pricing_optimization: line 690 divides by current_price
BasePricingOptimization(args) ==
    IF args.current_price = 0 THEN Raise("ZeroDivisionError")
    ELSE LET optimized_price == BaseOptimization(args.customer_segment, args.quantity,
                                                 args.current_price)
         IN  Ok([optimized_price |-> optimized_price,
                 expected_margin |-> BaseMargin(optimized_price, args.current_price),
                 cost_estimate |-> Mul(args.current_price, 70, 100)])

\* _fallback_pricing_optimization
FallbackPricingOptimization(args) ==
    LET base_result == BasePricingOptimization(args)
    IN  IF base_result.raised THEN base_result
        ELSE Ok([path |-> "advanced_fallback",
                 optimized_price |-> base_result.value.optimized_price,
                 expected_margin |-> base_result.value.expected_margin,
                 price_elasticity |-> -800,
                 confidence |-> 750])

\* _calculate_confidence_score
CalculateConfidenceScore(hd, product_sku, coef) ==
    LET data == IF hd.empty THEN 0
                ELSE IF RowsOf(hd, product_sku) > 50 THEN 10
                ELSE IF RowsOf(hd, product_sku) < 10 THEN -15
                ELSE 0
        elast == IF coef # NoCoef /\ coef # 0 THEN 5 ELSE 0
    IN  Min(95, Max(60, 85 + data + elast))

\* self.elasticity_models.get(product_sku, {}).get('elasticity_coefficient')
CoefficientOf(models, product_sku) ==
    IF product_sku \in DOMAIN models THEN models[product_sku] ELSE NoCoef

\* The elasticity adjustment of lines 452-460, with the comparison of line
\* 455 taken as "at most -1".
ElasticityAdjustmentInclusive(price, coef, target_metric) ==
    IF coef # NoCoef /\ coef # 0 /\ target_metric = "revenue" /\ coef <= -1000
    THEN Mul(price, 95, 100)
    ELSE price

\* The elasticity adjustment of lines 452-460.
ElasticityAdjustment(price, coef, target_metric) ==
    IF coef # NoCoef /\ coef # 0
    THEN IF target_metric = "revenue" /\ coef < -1000
         THEN Mul(price, 95, 100)
         ELSE IF target_metric = "margin" /\ coef > -1000
         THEN Mul(price, 105, 100)
         ELSE price
    ELSE price

\* The seasonality adjustment of lines 462-465.
SeasonalityAdjustment(price, insights, month) ==
    IF insights.peak_months # {} /\ month \in insights.peak_months
    THEN Mul(price, 103, 100)
    ELSE price

\* The segment adjustment of lines 467-471.
SegmentAdjustment(price, segments, customer_segment) ==
    IF customer_segment \in DOMAIN segments
    THEN IF segments[customer_segment] > 15 THEN Mul(price, 97, 100) ELSE price
    ELSE price

\* The elasticity, seasonality and segment adjustments of lines 452-471.
AdvancedAdjustments(price, coef, target_metric, insights, month, segments, customer_segment) ==
    SegmentAdjustment(
        SeasonalityAdjustment(ElasticityAdjustment(price, coef, target_metric),
                              insights, month),
        segments, customer_segment)

\* max(-0.2, elasticity.get('elasticity_coefficient', 0) * 0.1) of line 498,
\* in ten-thousandths (a coefficient in thousandths times 0.1).
DemandChange(coef) == Max(-2000, IF coef = NoCoef THEN 0 ELSE coef)

\* revenue_projection of lines 496-499, in units of 0.0001 dollar (the
\* optimized scenario truncated to the unit).
RevenueProjection(optimized_price, coef, args) ==
    LET revenue == (optimized_price \div 100) * args.quantity
    IN  [current_scenario |-> (args.current_price \div 100) * args.quantity,
         optimized_scenario |->
             revenue + ((revenue \div 100) * DemandChange(coef)) \div 100]

\* The body of the try of optimize_pricing_strategy (lines 439-502), given
\* the insights the analyses returned.
OptimizePricingStrategyBody(models, hd, insights, segments, args, month, target_metric) ==
    LET coef == CoefficientOf(models, args.product_sku)
        base_result == BasePricingOptimization(args)
    IN  IF base_result.raised THEN base_result
        ELSE LET optimized_price ==
                     AdvancedAdjustments(base_result.value.optimized_price, coef,
                                         target_metric, insights, month,
                                         segments, args.customer_segment)
                 cost == base_result.value.cost_estimate
             IN  Ok([path |-> "advanced",
                     optimized_price |-> Round2(optimized_price),
                     expected_margin |->
                         100 * RoundDiv(1000 * ((optimized_price - cost) \div 1000),
                                        optimized_price \div 1000),
                     price_elasticity |-> IF coef = NoCoef THEN -500 ELSE coef,
                     confidence |->
                         10 * CalculateConfidenceScore(hd, args.product_sku, coef),
                     revenue_projection |->
                         RevenueProjection(optimized_price, coef, args)])

\* optimize_pricing_strategy: the except of lines 504-506 answers any
\* exception of the body with _fallback_pricing_optimization.
OptimizePricingStrategy(models, hd, prophet, args, current_month, target_metric) ==
    LET body == OptimizePricingStrategyBody(
                    models, hd, AnalyzeSeasonality(prophet, hd).insights,
                    SegmentCustomersAdvanced(hd).segments, args, current_month,
                    target_metric)
    IN  IF body.raised THEN FallbackPricingOptimization(args) ELSE body

----------------------------------------------------------------------------
(* pricing_engine.py                                                        *)

\* np.random.uniform(0.95, 1.05), np.random.uniform(0.98, 1.02) in
\* hundredths and np.random.uniform(0, 15) in tenths: draws at the low ends,
\* the middles and the high ends of the three intervals.
RandomDraws ==
    { [market_factor |-> 95, competition_factor |-> 98, confidence |-> 0],
      [market_factor |-> 100, competition_factor |-> 100, confidence |-> 75],
      [market_factor |-> 105, competition_factor |-> 102, confidence |-> 150] }

\* _basic_price_optimization: line 202 divides by current_price
BasicPriceOptimization(args, rnd) ==
    IF args.current_price = 0 THEN Raise("ZeroDivisionError")
    ELSE LET base_optimization ==
                 BaseOptimization(args.customer_segment, args.quantity, args.current_price)
             optimized_price ==
                 Mul(Mul(base_optimization, rnd.market_factor, 100),
                     rnd.competition_factor, 100)
             \* price_change_pct in thousandths of a percent
             price_change_pct ==
                 RoundDiv(((optimized_price - args.current_price) \div 1000) * 10000,
                          args.current_price \div 10000)
         IN  Ok([path |-> "basic",
                 optimized_price |-> Round2(optimized_price),
                 expected_margin |-> 100 * RoundDiv(25000 + price_change_pct \div 2, 100),
                 price_elasticity |-> 10 * RoundDiv(Abs(price_change_pct), 100),
                 confidence |-> 850 + rnd.confidence])

\* PricingEngine.optimize_price
OptimizePriceAlwaysBasic(advanced_engine, models, hd, prophet, args, current_month, rnd) ==
    BasicPriceOptimization(args, rnd)

OptimizePrice(advanced_engine, models, hd, prophet, args, current_month, rnd) ==
    LET advanced == OptimizePricingStrategy(models, hd, prophet, args, current_month,
                                            "revenue")
    IN  IF advanced_engine /\ ~advanced.raised THEN advanced
        ELSE BasicPriceOptimization(args, rnd)

\* api/pricing.py optimize_pricing: the response built from the result, or
\* the demo values of lines 45-57 when the engine raised.
OptimizePricingResponse(result, args) ==
    IF result.raised
    THEN [status |-> 200,
          body |-> [path |-> "api_fallback",
                    optimized_price |-> Mul(args.current_price, 115, 100),
                    expected_margin |-> 28500,
                    price_elasticity |-> 850,
                    confidence |-> 923]]
    ELSE [status |-> 200, body |-> result.value]

\* item.product.hs_code or "0000"
HsCodeOrDefault(hs_code) == IF hs_code = NoHsCode THEN "0000" ELSE hs_code

\* The entry calculate_tariffs lists for one item (lines 146-159).
TariffItem(item) ==
    LET hs_code == HsCodeOrDefault(item.product.hs_code)
        tariff_rate == TariffRate(hs_code)
        item_value == item.unit_price * item.quantity
    IN  [sku |-> item.product.sku, hs_code |-> hs_code, value |-> item_value,
         tariff_rate |-> tariff_rate,
         tariff_unrounded |-> MulRate(item_value, tariff_rate),
         tariff_amount |-> Round2(MulRate(item_value, tariff_rate))]

\* calculate_tariffs
CalculateTariffs(b, origin_country) ==
    IF Upper(b.destination_country) = Upper(origin_country)
    THEN [total_tariffs |-> 0, items |-> <<>>, notes |-> "Domestic shipment - no tariffs"]
    ELSE LET tariff_items == [i \in 1..Len(b.items) |-> TariffItem(b.items[i])]
         IN  [total_tariffs |->
                  Round2(SumSeq([i \in 1..Len(b.items) |->
                                    tariff_items[i].tariff_unrounded])),
              items |-> tariff_items,
              notes |-> "Tariff rates are estimates and subject to customs verification"]

\* POST /api/invoices/calculate-tariffs
CalculateTariffsEndpoint(b, origin_country) ==
    [status |-> 200, origin_country |-> origin_country,
     body |-> CalculateTariffs(b, origin_country)]

----------------------------------------------------------------------------
(* shipping_estimator.py.  A weight is in grams, a rate per kg in           *)
(* micro-dollars per gram.                                                  *)

\* self.zone_rates
ZoneRates(zone) ==
    IF zone = "international"
    THEN [base |-> 25 * Dollar, per_gram |-> 4500]
    ELSE [base |-> 8 * Dollar + 50 * Cent, per_gram |-> 2200]

\* self.category_weights.get(category, 1.0) with every category at the
\* fallback of 1.0 kg
CategoryWeightFallback(category) == 1000

\* self.category_weights.get(category, 1.0)
CategoryWeight(category) ==
    CASE category = "reagents" -> 500
      [] category = "consumables" -> 200
      [] category = "chemicals" -> 1200
      [] category = "lab_equipment" -> 5000
      [] category = "instruments" -> 15000
      [] OTHER -> 1000

\* The weight one item adds (lines 45-56): `if item.product.weight_kg` is
\* false for None and for 0.
ItemWeight(item) ==
    IF item.product.weight_kg # NoWeight /\ item.product.weight_kg # 0
    THEN item.product.weight_kg * item.quantity
    ELSE CategoryWeight(item.product.category) * item.quantity

\* sum(item.product.base_price * item.quantity for item in basket.items)
DeclaredValue(b) ==
    SumSeq([i \in 1..Len(b.items) |-> b.items[i].product.base_price * b.items[i].quantity])

\* line 59 comparing the codes as given
IsInternationalShipmentExact(b) == b.destination_country # b.customer.country

\* line 59
IsInternationalShipment(b) == Upper(b.destination_country) # Upper(b.customer.country)

\* lines 78 and 112: round(total_cost, 2) of the sum of the unrounded
\* components
ShippingTotal(base, weight, handling, fuel, insurance, customs, tariff) ==
    Round2(base + weight + handling + fuel + insurance + customs + tariff)

\* estimate_cost
EstimateCost(b) ==
    LET total_weight == SumSeq([i \in 1..Len(b.items) |-> ItemWeight(b.items[i])])
        is_international == IsInternationalShipment(b)
        zone_config == ZoneRates(IF is_international THEN "international" ELSE "domestic")
        base_cost == zone_config.base
        weight_cost == total_weight * zone_config.per_gram
        handling_fee == IF total_weight > 10000 THEN 5 * Dollar ELSE 2 * Dollar + 50 * Cent
        fuel_surcharge == MulRate(base_cost + weight_cost, 800)
        insurance == MulRate(DeclaredValue(b), 100)
        customs_fee == IF is_international THEN 15 * Dollar ELSE 0
        tariff_estimate == IF is_international THEN MulRate(DeclaredValue(b), 500) ELSE 0
    IN  [total_cost |-> ShippingTotal(base_cost, weight_cost, handling_fee, fuel_surcharge,
                                      insurance, customs_fee, tariff_estimate),
         breakdown |-> [base_shipping |-> Round2(base_cost),
                        weight_charges |-> Round2(weight_cost),
                        handling_fee |-> Round2(handling_fee),
                        fuel_surcharge |-> Round2(fuel_surcharge),
                        insurance |-> Round2(insurance),
                        customs_fee |-> Round2(customs_fee),
                        tariff_estimate |-> Round2(tariff_estimate)],
         estimated_weight |-> total_weight]

\* api/shipping.py estimate_shipping_cost
EstimateShippingCost(b) == [status |-> 200, body |-> EstimateCost(b)]

\* suppliers of optimize_sourcing, in the order of the list
Suppliers == <<"US-East", "US-West", "EU-Germany", "Asia-Singapore">>

\* distance_multiplier, in tenths
DistanceMultiplier(supplier) ==
    CASE supplier = "US-East" -> 10
      [] supplier = "US-West" -> 12
      [] supplier = "EU-Germany" -> 25
      [] OTHER -> 30

\* round(x) of Python on a number of tenths: a tie goes to the even integer
RoundTenths(x) ==
    LET lo == x \div 10
        r  == x - 10 * lo
    IN  IF r < 5 THEN lo
        ELSE IF r > 5 THEN lo + 1
        ELSE IF lo % 2 = 0 THEN lo ELSE lo + 1

\* supplier_costs[supplier] (lines 177-184)
SupplierCost(b, supplier) ==
    [total_cost |-> Round2(Mul(EstimateCost(b).total_cost,
                               DistanceMultiplier(supplier), 10)),
     delivery_days |-> RoundTenths(20 + DistanceMultiplier(supplier)),
     available_items |-> Len(b.items)]

\* optimize_sourcing: min() returns the first supplier of least total_cost
OptimizeSourcing(b) ==
    LET supplier_costs == [i \in 1..Len(Suppliers) |-> SupplierCost(b, Suppliers[i])]
        costs == {supplier_costs[i].total_cost : i \in 1..Len(Suppliers)}
        lowest == CHOOSE c \in costs : \A d \in costs : c <= d
        highest == CHOOSE c \in costs : \A d \in costs : c >= d
        first == CHOOSE i \in 1..Len(Suppliers) :
                    /\ supplier_costs[i].total_cost = lowest
                    /\ \A j \in 1..(i - 1) : supplier_costs[j].total_cost # lowest
    IN  [recommended_supplier |-> Suppliers[first],
         cost_savings |-> Round2(lowest - highest),
         supplier_options |-> [i \in 1..Len(Suppliers) |->
                                  [supplier |-> Suppliers[i],
                                   total_cost |-> supplier_costs[i].total_cost,
                                   delivery_days |-> supplier_costs[i].delivery_days,
                                   available_items |-> supplier_costs[i].available_items]]]

\* api/shipping.py optimize_sourcing
OptimizeSourcingEndpoint(b) == [status |-> 200, body |-> OptimizeSourcing(b)]

\* Products of the shipping requests: one without a declared weight in each
\* category, one with a declared weight of 2.5 kg, one with a declared
\* weight of 0.
ShippingCatalog ==
    { [sku |-> "RGT-2", category |-> "reagents", weight_kg |-> NoWeight,
       base_price |-> 19 * Dollar + 60 * Cent, hs_code |-> "3822"],
      [sku |-> "INS-2", category |-> "instruments", weight_kg |-> NoWeight,
       base_price |-> 150 * Dollar, hs_code |-> NoHsCode],
      [sku |-> "CNS-2", category |-> "consumables", weight_kg |-> NoWeight,
       base_price |-> 12 * Dollar, hs_code |-> NoHsCode],
      [sku |-> "LAB-2", category |-> "lab_equipment", weight_kg |-> NoWeight,
       base_price |-> 90 * Dollar, hs_code |-> NoHsCode],
      [sku |-> "CHM-2", category |-> "chemicals", weight_kg |-> NoWeight,
       base_price |-> 45 * Dollar + 25 * Cent, hs_code |-> NoHsCode],
      [sku |-> "LAB-3", category |-> "lab_equipment", weight_kg |-> 2500,
       base_price |-> 60 * Dollar, hs_code |-> NoHsCode],
      [sku |-> "CNS-1", category |-> "consumables", weight_kg |-> 0,
       base_price |-> 120 * Dollar, hs_code |-> NoHsCode] }

ShippingQuantities == {-1, 1, 3}

ShippingItem ==
    { [product |-> p, quantity |-> q, unit_price |-> UnitPriceOf(p)] :
        p \in ShippingCatalog, q \in ShippingQuantities }

ShippingBasket ==
    { [items |-> it, customer |-> [segment |-> "academic", country |-> "US"],
       destination_country |-> d] :
        it \in UNION { [1..n -> ShippingItem] : n \in 0..MaxItems },
        d \in {"US", "us", "DE"} }

----------------------------------------------------------------------------
(* api/invoices.py: the endpoints.  A response is the HTTP status and the  *)
(* body; Basket is parsed by pydantic, whose schema constrains neither the *)
(* quantity nor the number of items.                                       *)

NoResponse == [status |-> 0]

\* POST /api/invoices/generate
GenerateInvoice(b, include) == [status |-> 200, body |-> Generate(b, include)]

\* POST /api/invoices/apply-promotions
ApplyPromotionsEndpoint(b) == [status |-> 200, body |-> ApplyPromotions(b)]

VARIABLES
    basket,               \* the Basket of the request being served
    include_promotions,   \* the query parameter of /generate
    invoice_response,     \* response of /generate to the request
    promotions_response,  \* response of /apply-promotions to the request
    shipping_response,    \* response of /estimate to the request
    tariffs_response,     \* response of /calculate-tariffs to the request
    sourcing_response,    \* response of /optimize-sourcing to the request
    advanced_engine,      \* PricingEngine.advanced_engine is not None
    prophet_available,    \* PROPHET_AVAILABLE
    historical_data,      \* AdvancedPricingEngine.historical_data
    customer_segments,    \* AdvancedPricingEngine.customer_segments
    elasticity_models,    \* AdvancedPricingEngine.elasticity_models
    seasonality_fitted,   \* 'revenue' in AdvancedPricingEngine.seasonality_models
    current_month,        \* datetime.now().month
    promotional_impact,   \* the result model_promotional_impact returned last
    analyzer_changed,     \* the Analyzer state changed since /optimize last returned
    prev_call,            \* the /optimize call before the latest one, kept when
                          \* its inputs were those of the latest one
    last_call             \* the latest /optimize call

invoice_vars == <<basket, include_promotions, invoice_response, promotions_response>>

analyzer_vars == <<historical_data, customer_segments, elasticity_models, seasonality_fitted>>

pricing_vars ==
    <<advanced_engine, prophet_available, historical_data, customer_segments,
      elasticity_models, seasonality_fitted, current_month, promotional_impact,
      analyzer_changed, prev_call, last_call>>

shipping_vars == <<shipping_response, tariffs_response, sourcing_response>>

vars == <<invoice_vars, shipping_vars, pricing_vars>>

\* self.customer_segments = None
NoSegments == [published |-> FALSE]

NoCall == [made |-> FALSE]

\* model_promotional_impact was not called yet
NoImpact == [returned |-> FALSE]

FirstMonth == 4

\* The state after PricingEngine() and AdvancedPricingEngine() are built:
\* the table loaded, no segments, no elasticity table, no fitted model.
Constructed(engine, prophet, hd) ==
    /\ advanced_engine = engine
    /\ prophet_available = prophet
    /\ historical_data = hd
    /\ customer_segments = NoSegments
    /\ elasticity_models = <<>>
    /\ seasonality_fitted = FALSE
    /\ current_month = FirstMonth
    /\ promotional_impact = NoImpact
    /\ analyzer_changed = FALSE
    /\ prev_call = NoCall
    /\ last_call = NoCall

InitInvoice ==
    /\ basket \in Basket
    /\ include_promotions \in BOOLEAN
    /\ invoice_response = NoResponse
    /\ promotions_response = NoResponse
    /\ shipping_response = NoResponse
    /\ tariffs_response = NoResponse
    /\ sourcing_response = NoResponse
    /\ Constructed(FALSE, FALSE, EmptyTable)

CallGenerateInvoice ==
    /\ invoice_response' = GenerateInvoice(basket, include_promotions)
    /\ UNCHANGED <<basket, include_promotions, promotions_response, shipping_vars,
                   pricing_vars>>

CallApplyPromotions ==
    /\ promotions_response' = ApplyPromotionsEndpoint(basket)
    /\ UNCHANGED <<basket, include_promotions, invoice_response, shipping_vars,
                   pricing_vars>>

NextInvoice == CallGenerateInvoice \/ CallApplyPromotions

SpecInvoice == InitInvoice /\ [][NextInvoice]_vars

----------------------------------------------------------------------------
(* The shipping service: api/shipping.py over the module-level              *)
(* ShippingEstimator.                                                       *)

InitShipping ==
    /\ basket \in ShippingBasket
    /\ include_promotions = FALSE
    /\ invoice_response = NoResponse
    /\ promotions_response = NoResponse
    /\ shipping_response = NoResponse
    /\ tariffs_response = NoResponse
    /\ sourcing_response = NoResponse
    /\ Constructed(FALSE, FALSE, EmptyTable)

CallEstimateShippingCost ==
    /\ shipping_response' = EstimateShippingCost(basket)
    /\ UNCHANGED <<invoice_vars, tariffs_response, sourcing_response, pricing_vars>>

CallOptimizeSourcing ==
    /\ sourcing_response' = OptimizeSourcingEndpoint(basket)
    /\ UNCHANGED <<invoice_vars, shipping_response, tariffs_response, pricing_vars>>

NextShipping == CallEstimateShippingCost \/ CallOptimizeSourcing

SpecShipping == InitShipping /\ [][NextShipping]_vars

----------------------------------------------------------------------------
(* The tariff preview: /calculate-tariffs over the module-level             *)
(* InvoiceGenerator.                                                        *)

OriginCountry == {"US", "us", "DE"}

InitTariffs ==
    /\ basket \in Basket
    /\ include_promotions = FALSE
    /\ invoice_response = NoResponse
    /\ promotions_response = NoResponse
    /\ shipping_response = NoResponse
    /\ tariffs_response = NoResponse
    /\ sourcing_response = NoResponse
    /\ Constructed(FALSE, FALSE, EmptyTable)

CallCalculateTariffs ==
    \E origin_country \in OriginCountry :
        /\ tariffs_response' = CalculateTariffsEndpoint(basket, origin_country)
        /\ UNCHANGED <<invoice_vars, shipping_response, sourcing_response, pricing_vars>>

NextTariffs == CallCalculateTariffs

SpecTariffs == InitTariffs /\ [][NextTariffs]_vars

----------------------------------------------------------------------------
(* The invoice endpoint over baskets of every product category and every   *)
(* customer segment.                                                        *)

\* class ProductCategory
ProductCategory == {"reagents", "lab_equipment", "consumables", "instruments", "chemicals"}

\* One product of each category, at a unit price of 40.00.
CategoryItem ==
    { [product |-> [sku |-> c, category |-> c, weight_kg |-> NoWeight,
                    base_price |-> 40 * Dollar, hs_code |-> NoHsCode],
       quantity |-> 1, unit_price |-> 40 * Dollar] : c \in ProductCategory }

\* class CustomerSegment, all four members
AllCustomerSegments == CustomerSegment \cup {"research_institute"}

CategoryBasket ==
    { [items |-> it, customer |-> [segment |-> s, country |-> c],
       destination_country |-> d] :
        it \in UNION { [1..n -> CategoryItem] : n \in 0..MaxItems },
        s \in AllCustomerSegments, c \in {"US", "DE"}, d \in {"US", "us", "DE"} }

InitCategories ==
    /\ basket \in CategoryBasket
    /\ include_promotions \in BOOLEAN
    /\ invoice_response = NoResponse
    /\ promotions_response = NoResponse
    /\ shipping_response = NoResponse
    /\ tariffs_response = NoResponse
    /\ sourcing_response = NoResponse
    /\ Constructed(FALSE, FALSE, EmptyTable)

NextCategories == CallGenerateInvoice

SpecCategories == InitCategories /\ [][NextCategories]_vars

----------------------------------------------------------------------------
(* The pricing service: api/pricing.py over the module-level PricingEngine. *)

RequestSkus == {"SKU-A", "SKU-C"}

RequestSegments == {"academic", "Academic", "Price Sensitive"}

RequestQuantities == {0, 25}

RequestPrices == {0, 100 * Dollar}

OptimizeArgs ==
    { [product_sku |-> k, customer_segment |-> g, quantity |-> q, current_price |-> p] :
        k \in RequestSkus, g \in RequestSegments, q \in RequestQuantities,
        p \in RequestPrices }

MaxMonth == 5

InitPricing ==
    /\ basket = [items |-> <<>>,
                 customer |-> [segment |-> "academic", country |-> "US"],
                 destination_country |-> "US"]
    /\ include_promotions = FALSE
    /\ invoice_response = NoResponse
    /\ promotions_response = NoResponse
    /\ shipping_response = NoResponse
    /\ tariffs_response = NoResponse
    /\ sourcing_response = NoResponse
    /\ \E engine \in BOOLEAN, prophet \in BOOLEAN, hd \in HistoricalTables :
          Constructed(engine, prophet, hd)

\* self.customer_segments after segment_customers_advanced
CustomerSegmentsAfter(segments, hd) ==
    IF SegmentCustomersAdvanced(hd).published
    THEN [published |-> TRUE, profiles |-> SegmentCustomersAdvanced(hd).segments]
    ELSE segments

\* The values optimize_pricing_strategy holds before it rounds the
\* price: the base optimization (line 449), the coefficient it looked up
\* (line 440), the price after the elasticity adjustment (line 460), after
\* the seasonality adjustment (line 465) and after the segment adjustment
\* (line 471), and the demand change of the revenue projection (line 498).
StrategyTrace(models, hd, prophet, args, month) ==
    LET base == BaseOptimization(args.customer_segment, args.quantity, args.current_price)
        coef == CoefficientOf(models, args.product_sku)
        p1 == ElasticityAdjustment(base, coef, "revenue")
        p2 == SeasonalityAdjustment(p1, AnalyzeSeasonality(prophet, hd).insights, month)
        p3 == SegmentAdjustment(p2, SegmentCustomersAdvanced(hd).segments,
                                args.customer_segment)
    IN  [base_optimization |-> base, coef |-> coef, after_elasticity |-> p1,
         after_seasonality |-> p2, after_segment |-> p3,
         demand_change |-> DemandChange(coef)]

\* One POST /optimize.  With an advanced engine the call runs
\* analyze_seasonality and segment_customers_advanced before it prices
\* (lines 441-442).  same_inputs tells whether the call before it is kept
\* for comparison.
OptimizeCall(args, rnd, same_inputs) ==
    LET result == OptimizePrice(advanced_engine, elasticity_models, historical_data,
                                prophet_available, args, current_month, rnd)
    IN  /\ UNCHANGED <<invoice_vars, shipping_vars, advanced_engine, prophet_available,
                       historical_data, elasticity_models, current_month,
                       promotional_impact>>
        /\ customer_segments' =
              IF advanced_engine
              THEN CustomerSegmentsAfter(customer_segments, historical_data)
              ELSE customer_segments
        /\ seasonality_fitted' =
              IF advanced_engine
              THEN seasonality_fitted
                   \/ AnalyzeSeasonality(prophet_available, historical_data).fitted
              ELSE seasonality_fitted
        /\ analyzer_changed' = FALSE
        /\ prev_call' = IF same_inputs THEN last_call ELSE NoCall
        /\ last_call' =
              [made |-> TRUE, args |-> args, month |-> current_month,
               advanced |-> advanced_engine,
               unchanged |-> ~analyzer_changed,
               body_raised |->
                   advanced_engine /\ OptimizePricingStrategyBody(
                       elasticity_models, historical_data,
                       AnalyzeSeasonality(prophet_available, historical_data).insights,
                       SegmentCustomersAdvanced(historical_data).segments,
                       args, current_month, "revenue").raised,
               strategy_raised |->
                   advanced_engine /\ OptimizePricingStrategy(
                       elasticity_models, historical_data, prophet_available, args,
                       current_month, "revenue").raised,
               trace |-> StrategyTrace(elasticity_models, historical_data, prophet_available,
                                       args, current_month),
               result |-> result,
               response |-> OptimizePricingResponse(result, args)]

CallOptimizePricing ==
    \E args \in OptimizeArgs, rnd \in RandomDraws :
        OptimizeCall(args, rnd, last_call.made /\ last_call.args = args)

\* GET /advanced-analytics: PricingEngine.get_advanced_analytics runs the
\* four analyses in turn.
CallGetAdvancedAnalytics ==
    /\ advanced_engine
    /\ customer_segments' = CustomerSegmentsAfter(customer_segments, historical_data)
    /\ elasticity_models' = ElasticityModelsAfter(elasticity_models, historical_data, NoSku)
    /\ seasonality_fitted' =
          (seasonality_fitted
           \/ AnalyzeSeasonality(prophet_available, historical_data).fitted)
    /\ historical_data' = HistoricalDataAfterPromotionalImpact(historical_data)
    /\ \E bin \in DiscountBins :
          promotional_impact' = ModelPromotionalImpact(historical_data, bin)
    /\ analyzer_changed' = (analyzer_changed \/ analyzer_vars' # analyzer_vars)
    /\ UNCHANGED <<invoice_vars, shipping_vars, advanced_engine, prophet_available, current_month,
                   prev_call, last_call>>

\* AdvancedPricingEngine.model_price_elasticity(product_sku)
ModelPriceElasticity(product_sku) ==
    /\ advanced_engine
    /\ elasticity_models' =
          ElasticityModelsAfter(elasticity_models, historical_data, product_sku)
    /\ UNCHANGED <<invoice_vars, shipping_vars, advanced_engine, prophet_available, historical_data,
                   customer_segments, seasonality_fitted, current_month,
                   promotional_impact, prev_call, last_call>>
    /\ analyzer_changed' = (analyzer_changed \/ analyzer_vars' # analyzer_vars)

\* model_price_elasticity called for one SKU, or without a SKU
CallModelPriceElasticity ==
    \E product_sku \in RequestSkus \cup {NoSku} : ModelPriceElasticity(product_sku)

\* AdvancedPricingEngine.model_promotional_impact()
CallModelPromotionalImpact ==
    /\ advanced_engine
    /\ historical_data' = HistoricalDataAfterPromotionalImpact(historical_data)
    /\ \E bin \in DiscountBins :
          promotional_impact' = ModelPromotionalImpact(historical_data, bin)
    /\ UNCHANGED <<invoice_vars, shipping_vars, advanced_engine, prophet_available, customer_segments,
                   elasticity_models, seasonality_fitted, current_month,
                   prev_call, last_call>>
    /\ analyzer_changed' = (analyzer_changed \/ analyzer_vars' # analyzer_vars)

\* The calendar month turns.
MonthTurns ==
    /\ current_month < MaxMonth
    /\ current_month' = current_month + 1
    /\ UNCHANGED <<invoice_vars, shipping_vars, advanced_engine, prophet_available, analyzer_vars,
                   promotional_impact, analyzer_changed, prev_call, last_call>>

NextPricing ==
    \/ CallOptimizePricing
    \/ CallGetAdvancedAnalytics
    \/ CallModelPriceElasticity
    \/ CallModelPromotionalImpact
    \/ MonthTurns

SpecPricing == InitPricing /\ [][NextPricing]_vars

----------------------------------------------------------------------------
(* The promotional analysis over tables of a few transactions, with and    *)
(* without a unit price.                                                    *)

\* Largest number of transaction records of a table.
MaxRows == 2

\* Transactions: a unit_price of 0 or 50.00, and the revenue the table
\* records for the row (its total_amount column).
PromotionRows ==
    { [segment |-> g, unit_price |-> u, quantity |-> q, revenue |-> r] :
        g \in {"academic", "enterprise"}, u \in {0, 50 * Dollar}, q \in {2, 6},
        r \in {100 * Dollar, 300 * Dollar} }

TableOfTransactions(rows) == [RealTable EXCEPT !.transactions = rows]

PromotionTables ==
    {EmptyTable}
      \cup { TableOfTransactions(rows) :
               rows \in UNION { [1..n -> PromotionRows] : n \in 1..MaxRows } }

InitPromotions ==
    /\ basket = [items |-> <<>>,
                 customer |-> [segment |-> "academic", country |-> "US"],
                 destination_country |-> "US"]
    /\ include_promotions = FALSE
    /\ invoice_response = NoResponse
    /\ promotions_response = NoResponse
    /\ shipping_response = NoResponse
    /\ tariffs_response = NoResponse
    /\ sourcing_response = NoResponse
    /\ \E hd \in PromotionTables : Constructed(TRUE, FALSE, hd)

NextPromotions == CallModelPromotionalImpact

SpecPromotions == InitPromotions /\ [][NextPromotions]_vars

----------------------------------------------------------------------------

(* The elasticity table over historical tables of many SKUs.                *)

\* Largest number of distinct SKUs of a table.
MaxSkus == 11

\* SKUs in their order of first appearance in the table.
SkuNames ==
    <<"SKU-A", "SKU-B", "SKU-C", "SKU-D", "SKU-E", "SKU-F", "SKU-G", "SKU-H",
      "SKU-I", "SKU-J", "SKU-K", "SKU-L">>

\* A table of n SKUs with 12 rows in 3 price bins each, those at the
\* positions of thin with 5 rows.
WideTable(n, thin) ==
    [RealTable EXCEPT
        !.skus = [i \in 1..n |->
                     [sku |-> SkuNames[i],
                      rows |-> IF i \in thin THEN 5 ELSE 12,
                      bins |-> 3,
                      coef |-> IF i \in thin THEN NoCoef ELSE -1200]]]

WideTables ==
    { WideTable(n, thin \cap (1..n)) : n \in 1..MaxSkus, thin \in SUBSET {1, 2, 3, MaxSkus} }

InitElasticity ==
    /\ basket = [items |-> <<>>,
                 customer |-> [segment |-> "academic", country |-> "US"],
                 destination_country |-> "US"]
    /\ include_promotions = FALSE
    /\ invoice_response = NoResponse
    /\ promotions_response = NoResponse
    /\ shipping_response = NoResponse
    /\ tariffs_response = NoResponse
    /\ sourcing_response = NoResponse
    /\ \E hd \in WideTables : Constructed(TRUE, FALSE, hd)

NextElasticity == CallModelPriceElasticity

SpecElasticity == InitElasticity /\ [][NextElasticity]_vars

----------------------------------------------------------------------------

(* The optimizer across quantities and elasticity coefficients: one SKU,   *)
(* one segment and one price, requested at every volume tier, against      *)
(* tables whose regression gives the SKU a coefficient on either side of   *)
(* -1.                                                                      *)

TierQuantities == {1, 2, 4, 5, 10, 25}

TierArgs ==
    { [product_sku |-> "SKU-A", customer_segment |-> "academic", quantity |-> q,
       current_price |-> 100 * Dollar] : q \in TierQuantities }

\* Coefficients in thousandths.
TierCoefficients == {-2500, -1500, -1001, -1000, -800, 0, 500, 2500}

\* Numbers of historical rows of the SKU: above 50, and between 10 and 50.
TierRows == {30, 60}

TableWithCoefficient(coef, rows) ==
    [RealTable EXCEPT !.skus[1].coef = coef, !.skus[1].rows = rows]

InitOptimizer ==
    /\ basket = [items |-> <<>>,
                 customer |-> [segment |-> "academic", country |-> "US"],
                 destination_country |-> "US"]
    /\ include_promotions = FALSE
    /\ invoice_response = NoResponse
    /\ promotions_response = NoResponse
    /\ shipping_response = NoResponse
    /\ tariffs_response = NoResponse
    /\ sourcing_response = NoResponse
    /\ \E engine \in BOOLEAN, coef \in TierCoefficients, rows \in TierRows :
          Constructed(engine, FALSE, TableWithCoefficient(coef, rows))

\* POST /optimize for one of the tier requests; the call before it is kept
\* when it differed in quantity only.
CallOptimizePricingTier ==
    \E args \in TierArgs, rnd \in RandomDraws :
        OptimizeCall(args, rnd,
                     /\ last_call.made
                     /\ last_call.args.product_sku = args.product_sku
                     /\ last_call.args.customer_segment = args.customer_segment
                     /\ last_call.args.current_price = args.current_price)

NextOptimizer == CallOptimizePricingTier \/ CallModelPriceElasticity

SpecOptimizer == InitOptimizer /\ [][NextOptimizer]_vars

----------------------------------------------------------------------------
(* Properties of the Invoice Composer                                      *)

Invoiced == invoice_response.status = 200

Previewed == promotions_response.status = 200

inv == invoice_response.body

FieldValues(fields) == [i \in 1..Len(fields) |-> fields[i].field_value]

FieldsNamed(fields, name) == {i \in 1..Len(fields) : fields[i].field_name = name}

\* Magnitude of the promotion_discount field of an invoice, 0 when absent.
PromotionDiscountOf(invoice) ==
    LET fs == invoice.dynamic_fields
        at == FieldsNamed(fs, "promotion_discount")
    IN  IF at = {} THEN 0 ELSE -fs[CHOOSE i \in at : TRUE].field_value

\* C1: every invoice returned by generate has
\* total = subtotal + tax_total + shipping_cost + the sum of its dynamic
\* field values, whatever the basket and include_promotions.
C1_TotalReconciles ==
    Invoiced =>
        inv.total = inv.subtotal + inv.tax_total + inv.shipping_cost
                      + SumSeq(FieldValues(inv.dynamic_fields))

\* C1 witness: an invoice carrying a promotion discount and a fee was produced.
C1_Witness ==
    /\ Invoiced
    /\ PromotionDiscountOf(inv) > 0
    /\ FieldsNamed(inv.dynamic_fields, "handling_charge") # {}
    /\ inv.tax_total > 0

\* C2: the invoice has one line item per basket item, in basket order, and
\* each has line_total = unit_price * quantity of that basket item.
C2_LineTotals ==
    Invoiced =>
        /\ Len(inv.line_items) = Len(basket.items)
        /\ \A i \in 1..Len(basket.items) :
              /\ inv.line_items[i].sku = basket.items[i].product.sku
              /\ inv.line_items[i].unit_price = basket.items[i].unit_price
              /\ inv.line_items[i].quantity = basket.items[i].quantity
              /\ inv.line_items[i].line_total
                    = basket.items[i].unit_price * basket.items[i].quantity

\* C2 witness: an invoice with two different lines of quantity 3 and 1.
C2_Witness ==
    /\ Invoiced
    /\ Len(inv.line_items) = 2
    /\ inv.line_items[1].sku # inv.line_items[2].sku
    /\ inv.line_items[1].quantity = 3
    /\ inv.line_items[2].quantity = 1
    /\ inv.line_items[1].line_total = 3 * inv.line_items[1].unit_price

\* The promotion rules as the claim states them: the eligibility of each rule
\* on the undiscounted subtotal, and the sum of the eligible rules' discounts.
AcademicEligible(b, subtotal) ==
    b.customer.segment = "academic" /\ subtotal >= 100 * Dollar

BulkEligible(subtotal) == subtotal >= 1000 * Dollar

SumOfEligible(b, subtotal, bulk_bp) ==
    (IF AcademicEligible(b, subtotal) THEN MulRate(subtotal, 1000) ELSE 0)
      + (IF BulkEligible(subtotal) THEN MulRate(subtotal, bulk_bp) ELSE 0)

NumEligible(b, subtotal) ==
    (IF AcademicEligible(b, subtotal) THEN 1 ELSE 0)
      + (IF BulkEligible(subtotal) THEN 1 ELSE 0)

BasketSubtotal(b) ==
    SumSeq([i \in 1..Len(b.items) |-> b.items[i].unit_price * b.items[i].quantity])

\* C3: the aggregate discount is the sum of the discounts of all eligible
\* rules, each on the undiscounted subtotal, uncapped: on the invoice (bulk
\* rate 5%) exactly, in the preview (bulk rate 20%) to the cent, with one
\* applied promotion per eligible rule; an academic customer with
\* 100 <= subtotal < 1000 gets the academic discount alone, 10% of subtotal.
C3_PromotionsAdditive ==
    LET s == BasketSubtotal(basket) IN
    /\ (Invoiced /\ include_promotions) =>
          PromotionDiscountOf(inv) = SumOfEligible(basket, s, 500)
    /\ Previewed =>
          /\ 2 * Abs(promotions_response.body.total_discount
                       - SumOfEligible(basket, s, 2000)) <= Cent
          /\ Len(promotions_response.body.applied_promotions) = NumEligible(basket, s)
    /\ (basket.customer.segment = "academic" /\ s >= 100 * Dollar /\ s < 1000 * Dollar) =>
          /\ (Invoiced /\ include_promotions) => 10 * PromotionDiscountOf(inv) = s
          /\ Previewed =>
                /\ Len(promotions_response.body.applied_promotions) = 1
                /\ promotions_response.body.applied_promotions[1].code = "ACADEMIC10"

\* C3 witness: the scenario of the claim (academic, subtotal 300 -> 30.00 on
\* the invoice and in the preview).
C3_Witness ==
    /\ Invoiced /\ include_promotions /\ Previewed
    /\ basket.customer.segment = "academic"
    /\ inv.subtotal = 300 * Dollar
    /\ PromotionDiscountOf(inv) = 30 * Dollar
    /\ promotions_response.body.total_discount = 30 * Dollar

\* C3 witness of the additive case: both rules eligible on one invoice.
C3_WitnessBoth ==
    /\ Invoiced /\ include_promotions
    /\ AcademicEligible(basket, inv.subtotal) /\ BulkEligible(inv.subtotal)

\* C4: the total_discount of the preview equals (to the cent) the magnitude
\* of the promotion_discount field generate(basket, true) puts on the invoice.
C4_PreviewMatchesInvoice ==
    (Invoiced /\ include_promotions /\ Previewed) =>
        2 * Abs(promotions_response.body.total_discount - PromotionDiscountOf(inv)) <= Cent

\* C5: with include_promotions, exactly one promotion_discount field, of value
\* minus the aggregate discount, exactly when that discount is positive; with
\* include_promotions = false or no eligible rule, no promotion_discount field
\* and every dynamic field value >= 0.
C5_PromotionField ==
    Invoiced =>
        LET fs == inv.dynamic_fields
            at == FieldsNamed(fs, "promotion_discount")
            d  == ApplyPromotionsInternal(basket, inv.subtotal)
        IN  IF include_promotions /\ d > 0
            THEN /\ Cardinality(at) = 1
                 /\ \A i \in at : fs[i].field_value = -d
            ELSE /\ at = {}
                 /\ \A i \in 1..Len(fs) : fs[i].field_value >= 0

\* C10 (invoice endpoint): a request with an empty basket or a non-positive
\* quantity is answered by a validation failure, never by an invoice.
C10_InvalidBasketRejected ==
    (~ValidBasket(basket)) =>
        /\ invoice_response.status # 200
        /\ promotions_response.status # 200

----------------------------------------------------------------------------
(* Properties of the Optimizer                                             *)

\* Two results agree on optimized_price, expected_margin and price_elasticity.
SamePricing(r1, r2) ==
    /\ r1.optimized_price = r2.optimized_price
    /\ r1.expected_margin = r2.expected_margin
    /\ r1.price_elasticity = r2.price_elasticity

\* The two latest /optimize calls had identical inputs and the Analyzer
\* state did not change between them.
RepeatedCall ==
    /\ prev_call.made
    /\ last_call.made
    /\ prev_call.args = last_call.args
    /\ last_call.unchanged

\* A call was answered by the advanced strategy.
OnAdvancedPath(call) == call.advanced /\ ~call.strategy_raised

\* The band the random factors of the basic path span around the base
\* optimization: 0.95 * 0.98 to 1.05 * 1.02.
InBasicBand(call) ==
    LET base == BaseOptimization(call.args.customer_segment, call.args.quantity,
                                 call.args.current_price)
        lo == Mul(Mul(base, 95, 100), 98, 100)
        hi == Mul(Mul(base, 105, 100), 102, 100)
    IN  /\ call.result.value.optimized_price >= Min(lo, hi) - Cent \div 2
        /\ call.result.value.optimized_price <= Max(lo, hi) + Cent \div 2

C7_IndependentOfHistory ==
    (/\ prev_call.made
     /\ last_call.made
     /\ prev_call.args = last_call.args
     /\ prev_call.month = last_call.month
     /\ OnAdvancedPath(prev_call)
     /\ OnAdvancedPath(last_call))
        => SamePricing(prev_call.result.value, last_call.result.value)

\* C8: optimize_price returns a result with an optimized price and never
\* raises, for every input.
C8_NeverRaises ==
    last_call.made => ~last_call.result.raised

\* C9: whenever the advanced optimization raises, the caller of the optimize
\* operation receives the base optimization with price_elasticity -0.8 and
\* confidence 75.
C9_FallbackValues ==
    (last_call.made /\ last_call.advanced /\ last_call.body_raised)
        => /\ last_call.response.body.optimized_price =
                 BaseOptimization(last_call.args.customer_segment,
                                  last_call.args.quantity,
                                  last_call.args.current_price)
           /\ last_call.response.body.price_elasticity = -800
           /\ last_call.response.body.confidence = 750

\* The volume tiers of the price list: threshold and multiplier in hundredths.
VolumeTiers == {<<1, 100>>, <<2, 98>>, <<5, 95>>, <<10, 92>>, <<25, 88>>}

\* The multiplier of the largest threshold not exceeding the quantity.
TierMultiplier(quantity) ==
    LET reached == {t \in VolumeTiers : t[1] <= quantity}
    IN  IF reached = {} THEN 100
        ELSE (CHOOSE t \in reached : \A u \in reached : u[1] <= t[1])[2]

\* The two latest calls differ at most in quantity, and the later one asks
\* for at least as many units.
QuantityRaised ==
    /\ prev_call.made
    /\ last_call.made
    /\ prev_call.args.quantity <= last_call.args.quantity
    /\ ~prev_call.result.raised
    /\ ~last_call.result.raised

C12_ElasticityFactor ==
    (last_call.made /\ last_call.advanced /\ ~last_call.body_raised)
        => LET t == last_call.trace
           IN  /\ (t.coef # NoCoef /\ t.coef < -1000)
                     => 20 * (t.base_optimization - t.after_elasticity)
                            = t.base_optimization
               /\ (t.coef = NoCoef \/ t.coef >= -1000)
                     => t.after_elasticity = t.base_optimization

\* An advanced call for a SKU whose coefficient is -1.5: the price before the
\* later factors is 5% below the base optimization.
C12_Witness ==
    /\ last_call.made
    /\ last_call.advanced
    /\ ~last_call.body_raised
    /\ last_call.trace.coef = -1500
    /\ last_call.trace.after_elasticity < last_call.trace.base_optimization

\* An advanced call for a SKU whose coefficient is exactly -1.
C12_WitnessBoundary ==
    /\ last_call.made
    /\ last_call.advanced
    /\ last_call.trace.coef = -1000
    /\ last_call.trace.after_elasticity = last_call.trace.base_optimization

----------------------------------------------------------------------------
\* The confidence formula of the claim, in points: rows is the number of
\* historical rows of the SKU, found whether the elasticity table had a
\* coefficient for it.
StatedConfidence(rows, found) ==
    Min(95, Max(60, 85 + (IF rows > 50 THEN 10 ELSE IF rows < 10 THEN -15 ELSE 0)
                       + (IF found THEN 5 ELSE 0)))

\* C22: the confidence returned by the advanced optimization is
\* min(95, max(60, 85 + (10 for more than 50 historical rows of the SKU, -15
\* for fewer than 10) + (5 when an elasticity coefficient was found for the
\* SKU, whatever its value))), hence within [60, 95].
C22_Confidence ==
    (last_call.made /\ last_call.advanced /\ ~last_call.body_raised) =>
        /\ last_call.result.value.confidence
              = 10 * StatedConfidence(RowsOf(historical_data, last_call.args.product_sku),
                                      last_call.trace.coef # NoCoef)
        /\ last_call.result.value.confidence >= 600
        /\ last_call.result.value.confidence <= 950

\* C22 where a coefficient found is not 0 and the table is not empty.
C22_ConfidenceNonZero ==
    (/\ last_call.made /\ last_call.advanced /\ ~last_call.body_raised
     /\ last_call.trace.coef # 0
     /\ ~historical_data.empty) =>
        last_call.result.value.confidence
            = 10 * StatedConfidence(RowsOf(historical_data, last_call.args.product_sku),
                                    last_call.trace.coef # NoCoef)

\* C22: the confidence of every advanced answer lies within [60, 95].
C22_ConfidenceRange ==
    (last_call.made /\ last_call.advanced /\ ~last_call.body_raised) =>
        /\ last_call.result.value.confidence >= 600
        /\ last_call.result.value.confidence <= 950

----------------------------------------------------------------------------

\* The Analyzer's profile name of a request segment: the segment
\* capitalised.
ProfileName(customer_segment) ==
    CASE customer_segment = "academic" -> "Academic"
      [] customer_segment = "enterprise" -> "Enterprise"
      [] customer_segment = "startup" -> "Startup"
      [] customer_segment = "government" -> "Government"
      [] OTHER -> customer_segment

\* The segment factor was applied between two prices: 3% off.
ThreePercentOff(before, after) == before - after = 3 * (before \div 100) /\ after < before

\* The peak factor was applied between two prices: 3% on.
ThreePercentOn(before, after) == after - before = 3 * (before \div 100) /\ after > before

\* C23: when the Analyzer's profile for the request's customer segment has
\* price_sensitivity > 1.5 (the static-default Academic profile, 1.8, for a
\* request with segment 'academic'), optimize_pricing_strategy multiplies
\* the price by 0.97; otherwise the factor is not applied.
C23_SegmentSensitivity ==
    (last_call.made /\ last_call.advanced /\ ~last_call.body_raised) =>
        LET t == last_call.trace
            segments == SegmentCustomersAdvanced(historical_data).segments
            name == ProfileName(last_call.args.customer_segment)
        IN  IF name \in DOMAIN segments /\ segments[name] > 15
            THEN ThreePercentOff(t.after_seasonality, t.after_segment)
            ELSE t.after_segment = t.after_seasonality

\* C23 for requests whose segment is written exactly as the profile is
\* named.
C23_SegmentSensitivityExactName ==
    (/\ last_call.made /\ last_call.advanced /\ ~last_call.body_raised
     /\ ProfileName(last_call.args.customer_segment) = last_call.args.customer_segment) =>
        LET t == last_call.trace
            segments == SegmentCustomersAdvanced(historical_data).segments
            name == last_call.args.customer_segment
        IN  IF name \in DOMAIN segments /\ segments[name] > 15
            THEN ThreePercentOff(t.after_seasonality, t.after_segment)
            ELSE t.after_segment = t.after_seasonality

\* The calendar month of a resample('M') label.
MonthOf(label) == label % 100

\* The Analyzer's peak months as calendar months: those of the labels
\* _get_peak_months derives when the model was fitted, the static default
\* otherwise.
PeakCalendarMonths(prophet, hd) ==
    LET seasonality == AnalyzeSeasonality(prophet, hd)
    IN  IF seasonality.fitted
        THEN {MonthOf(label) : label \in seasonality.insights.peak_months}
        ELSE seasonality.insights.peak_months

\* C24: when the current calendar month is one of the Analyzer's peak
\* months, optimize_pricing_strategy multiplies the price by 1.03, with the
\* static-default peak set {3, 4, 9, 10} and with the peak months derived
\* from the historical data alike; in a non-peak month the factor is not
\* applied.
C24_PeakMonthFactor ==
    (last_call.made /\ last_call.advanced /\ ~last_call.body_raised) =>
        LET t == last_call.trace
        IN  IF last_call.month \in PeakCalendarMonths(prophet_available, historical_data)
            THEN ThreePercentOn(t.after_elasticity, t.after_seasonality)
            ELSE t.after_seasonality = t.after_elasticity

\* C24 with the static-default peak set.
C24_PeakMonthFactorStatic ==
    (/\ last_call.made /\ last_call.advanced /\ ~last_call.body_raised
     /\ ~AnalyzeSeasonality(prophet_available, historical_data).fitted) =>
        LET t == last_call.trace
        IN  IF last_call.month \in {3, 4, 9, 10}
            THEN ThreePercentOn(t.after_elasticity, t.after_seasonality)
            ELSE t.after_seasonality = t.after_elasticity

----------------------------------------------------------------------------

\* C25: in revenue_projection, optimized_scenario is
\* optimized_price x quantity x (1 + d), where the demand change d derived
\* from the elasticity coefficient satisfies -0.20 <= d <= +0.20 for every
\* coefficient, positive or negative.
C25_DemandChangeBounded ==
    (last_call.made /\ last_call.advanced /\ ~last_call.body_raised) =>
        LET t == last_call.trace
            revenue == (t.after_segment \div 100) * last_call.args.quantity
        IN  /\ last_call.result.value.revenue_projection.optimized_scenario
                  = revenue + ((revenue \div 100) * t.demand_change) \div 100
            /\ t.demand_change >= -2000
            /\ t.demand_change <= 2000

\* C25, lower bound alone: the demand change is never below -20%.
C25_DemandChangeFloor ==
    (last_call.made /\ last_call.advanced /\ ~last_call.body_raised) =>
        last_call.trace.demand_change >= -2000

----------------------------------------------------------------------------

(* Properties of the Shipping Estimator                                    *)

Estimated == shipping_response.status = 200

est == shipping_response.body

\* The sum of the seven breakdown values as returned.
BreakdownSum(breakdown) ==
    breakdown.base_shipping + breakdown.weight_charges + breakdown.handling_fee
      + breakdown.fuel_surcharge + breakdown.insurance + breakdown.customs_fee
      + breakdown.tariff_estimate

\* C13: in every ShippingEstimate, total_cost equals the sum of the seven
\* breakdown values as returned, and total_cost >= 0.
C13_TotalIsBreakdownSum ==
    Estimated => /\ est.total_cost = BreakdownSum(est.breakdown)
                 /\ est.total_cost >= 0

\* C13 on the baskets the data model calls valid: only the equality can fail.
C13_TotalIsBreakdownSumValid ==
    (Estimated /\ ValidBasket(basket)) => est.total_cost = BreakdownSum(est.breakdown)

\* Two country codes name the same country (letter case aside).
SameCountry(a, b) == Upper(a) = Upper(b)

\* C14: a basket whose destination_country is the customer's country is
\* priced with the domestic rate table (base 8.50, 2.20 per kg), customs_fee
\* 0 and tariff_estimate 0; the basket that differs from it only in a
\* destination_country of another country is priced with the international
\* table (base 25.00, 4.50 per kg), customs_fee 15 and tariff_estimate 5% of
\* the sum of base_price x quantity.
C14_ShippingZone ==
    Estimated =>
        IF SameCountry(basket.destination_country, basket.customer.country)
        THEN /\ est.breakdown.base_shipping = 8 * Dollar + 50 * Cent
             /\ est.breakdown.weight_charges = Round2(est.estimated_weight * 2200)
             /\ est.breakdown.customs_fee = 0
             /\ est.breakdown.tariff_estimate = 0
        ELSE /\ est.breakdown.base_shipping = 25 * Dollar
             /\ est.breakdown.weight_charges = Round2(est.estimated_weight * 4500)
             /\ est.breakdown.customs_fee = 15 * Dollar
             /\ est.breakdown.tariff_estimate =
                    Round2((SumSeq([i \in 1..Len(basket.items) |->
                               basket.items[i].product.base_price
                                 * basket.items[i].quantity]) \div 100) * 5)

\* An estimate for a US customer's basket sent to DE with a tariff estimate.
C14_Witness ==
    /\ Estimated
    /\ basket.destination_country = "DE"
    /\ basket.customer.country = "US"
    /\ est.breakdown.customs_fee = 15 * Dollar
    /\ est.breakdown.tariff_estimate > 0

\* An estimate for the same customer's basket sent to "us".
C14_WitnessDomestic ==
    /\ Estimated
    /\ basket.destination_country = "us"
    /\ Len(basket.items) > 0
    /\ est.breakdown.customs_fee = 0

\* The documented default weight of a category, in grams.
DefaultWeight(category) ==
    CASE category = "instruments" -> 15000
      [] category = "lab_equipment" -> 5000
      [] category = "chemicals" -> 1200
      [] category = "reagents" -> 500
      [] category = "consumables" -> 200

\* C15: an item whose product has no declared weight adds the category
\* default weight times its quantity to the estimated weight (instruments
\* 15 kg, lab_equipment 5 kg, chemicals 1.2 kg, reagents 0.5 kg, consumables
\* 0.2 kg), which is not zero for a positive quantity.
C15_DefaultWeights ==
    Estimated =>
        /\ est.estimated_weight =
              SumSeq([i \in 1..Len(basket.items) |->
                        IF basket.items[i].product.weight_kg = NoWeight
                        THEN DefaultWeight(basket.items[i].product.category)
                               * basket.items[i].quantity
                        ELSE ItemWeight(basket.items[i])])
        /\ (Len(basket.items) = 1
            /\ basket.items[1].product.weight_kg = NoWeight
            /\ basket.items[1].quantity > 0)
              => est.estimated_weight > 0

\* An estimate for three instruments without a declared weight: 45 kg.
C15_Witness ==
    /\ Estimated
    /\ Len(basket.items) = 1
    /\ basket.items[1].product.category = "instruments"
    /\ basket.items[1].product.weight_kg = NoWeight
    /\ basket.items[1].quantity = 3
    /\ est.estimated_weight = 45000

----------------------------------------------------------------------------
\* C28: whenever a product declares a weight, estimate_cost uses the
\* declared weight x quantity for that item, a declared weight of 0 included
\* (it adds 0 to the estimated weight); the category default is used only
\* when weight_kg is absent.
C28_DeclaredWeightUsed ==
    Estimated =>
        est.estimated_weight =
            SumSeq([i \in 1..Len(basket.items) |->
                      IF basket.items[i].product.weight_kg # NoWeight
                      THEN basket.items[i].product.weight_kg * basket.items[i].quantity
                      ELSE DefaultWeight(basket.items[i].product.category)
                             * basket.items[i].quantity])

\* C28 for baskets without a product of declared weight 0.
C28_DeclaredWeightUsedNonZero ==
    (Estimated /\ \A i \in 1..Len(basket.items) : basket.items[i].product.weight_kg # 0) =>
        est.estimated_weight =
            SumSeq([i \in 1..Len(basket.items) |->
                      IF basket.items[i].product.weight_kg # NoWeight
                      THEN basket.items[i].product.weight_kg * basket.items[i].quantity
                      ELSE DefaultWeight(basket.items[i].product.category)
                             * basket.items[i].quantity])

Sourced == sourcing_response.status = 200

src == sourcing_response.body

\* The option optimize_sourcing lists for a supplier.
OptionOf(supplier) ==
    src.supplier_options[CHOOSE i \in 1..Len(src.supplier_options) :
                            src.supplier_options[i].supplier = supplier]

\* The recommended supplier is one of the four candidates and none of them
\* costs less.
RecommendedIsCheapest ==
    /\ \E i \in 1..Len(src.supplier_options) :
          src.supplier_options[i].supplier = src.recommended_supplier
    /\ \A i \in 1..Len(src.supplier_options) :
          OptionOf(src.recommended_supplier).total_cost
              <= src.supplier_options[i].total_cost

\* delivery_days is non-decreasing in the distance multiplier.
DeliveryDaysMonotone ==
    \A i, j \in 1..Len(src.supplier_options) :
        DistanceMultiplier(src.supplier_options[i].supplier)
            <= DistanceMultiplier(src.supplier_options[j].supplier)
          => src.supplier_options[i].delivery_days <= src.supplier_options[j].delivery_days

\* C29: optimize_sourcing recommends a candidate location whose total_cost
\* (base estimate x the location's distance multiplier) is minimal among the
\* four candidates; the reported cost spread (cost_savings) is the highest
\* candidate cost minus the lowest, hence >= 0; delivery_days is
\* non-decreasing in the distance multiplier.
C29_Sourcing ==
    Sourced =>
        /\ Len(src.supplier_options) = 4
        /\ \A i \in 1..Len(src.supplier_options) :
              src.supplier_options[i].total_cost =
                  Round2(Mul(EstimateCost(basket).total_cost,
                             DistanceMultiplier(src.supplier_options[i].supplier), 10))
        /\ RecommendedIsCheapest
        /\ \E i, j \in 1..Len(src.supplier_options) :
              /\ \A k \in 1..Len(src.supplier_options) :
                    /\ src.supplier_options[k].total_cost <= src.supplier_options[i].total_cost
                    /\ src.supplier_options[k].total_cost >= src.supplier_options[j].total_cost
              /\ src.cost_savings = src.supplier_options[i].total_cost
                                      - src.supplier_options[j].total_cost
        /\ src.cost_savings >= 0
        /\ DeliveryDaysMonotone

\* C29 without the cost spread.
C29_SourcingRecommendation ==
    Sourced => RecommendedIsCheapest /\ DeliveryDaysMonotone

(* Properties of the tariff preview                                        *)

Tariffed == tariffs_response.status = 200

\* The HS codes of the tariff table.
MappedHsCodes == {"3822", "9027", "3926", "7020"}

\* unit_price x quantity x the HS-code rate of one item, the flat 5% when
\* the code is absent or unmapped.
ExpectedTariff(item) ==
    MulRate(item.unit_price * item.quantity,
            IF item.product.hs_code \in MappedHsCodes
            THEN TariffRate(item.product.hs_code)
            ELSE 500)

\* C16: calculate_tariffs returns total_tariffs 0, no items and an
\* explanatory note when origin_country is the basket's destination country;
\* otherwise total_tariffs is (to the cent) the sum over the items of
\* unit_price x quantity x the HS-code rate, 5% for an absent or unmapped
\* code.
C16_Tariffs ==
    Tariffed =>
        IF SameCountry(tariffs_response.origin_country, basket.destination_country)
        THEN /\ tariffs_response.body.total_tariffs = 0
             /\ tariffs_response.body.items = <<>>
             /\ tariffs_response.body.notes = "Domestic shipment - no tariffs"
        ELSE /\ 2 * Abs(tariffs_response.body.total_tariffs
                          - SumSeq([i \in 1..Len(basket.items) |->
                                      ExpectedTariff(basket.items[i])])) <= Cent
             /\ Len(tariffs_response.body.items) = Len(basket.items)

\* A preview from DE to US of a basket with a mapped and an unmapped code.
C16_Witness ==
    /\ Tariffed
    /\ ~SameCountry(tariffs_response.origin_country, basket.destination_country)
    /\ Len(basket.items) = 2
    /\ basket.items[1].product.hs_code = "3822"
    /\ basket.items[2].product.hs_code \notin MappedHsCodes
    /\ basket.items[1].quantity > 0
    /\ basket.items[2].quantity > 0
    /\ tariffs_response.body.total_tariffs > 0

\* A preview whose origin is the destination.
C16_WitnessDomestic ==
    /\ Tariffed
    /\ tariffs_response.origin_country = "us"
    /\ basket.destination_country = "US"
    /\ Len(basket.items) > 0
    /\ tariffs_response.body.total_tariffs = 0

----------------------------------------------------------------------------
(* Properties of the Analyzer's state                                      *)

\* C17: no Analyzer operation modifies the historical transaction table:
\* its rows, its columns and its base_price values are the same before and
\* after every call.
C17_HistoricalDataImmutable ==
    [][historical_data' = historical_data]_vars

\* C18: serving an optimize_price request neither recomputes nor writes the
\* Analyzer's derived profiles (customer_segments with the segmentation
\* model and scaler, the elasticity table, the seasonality model).
C18_OptimizeReadsProfilesOnly ==
    [][CallOptimizePricing =>
          /\ customer_segments' = customer_segments
          /\ elasticity_models' = elasticity_models
          /\ seasonality_fitted' = seasonality_fitted]_vars

\* The profile set is complete: segment profiles are published and the
\* elasticity table is the one built from the whole historical table.
ProfileSetComplete(segments, models, hd) ==
    /\ segments.published
    /\ models = ElasticityResults(hd, NoSku)

\* C19: the Analyzer's profile set (segment profiles with their model and
\* scaler, elasticity table) is replaced as a whole: every step that
\* publishes a part of it leaves a completely built set, so that no request
\* served afterwards reads a partially built one.
C19_ProfileSetSwappedWhole ==
    [][(customer_segments' # customer_segments \/ elasticity_models' # elasticity_models)
          => ProfileSetComplete(customer_segments', elasticity_models', historical_data')]_vars

----------------------------------------------------------------------------
\* C27: after model_price_elasticity() is called without a SKU on a
\* non-empty historical table, the elasticity table has an entry for every
\* SKU with at least 10 rows and at least 3 distinct price bins, whatever
\* the number of distinct SKUs of the table, and no entry for a SKU with
\* fewer than 10 rows.
C27_ElasticityTableComplete ==
    [][(ModelPriceElasticity(NoSku) /\ ~historical_data.empty) =>
          \A i \in 1..Len(historical_data.skus) :
              LET row == historical_data.skus[i]
              IN  /\ (row.rows >= 10 /\ row.bins >= 3)
                        => row.sku \in DOMAIN elasticity_models'
                  /\ row.rows < 10 => row.sku \notin DOMAIN elasticity_models']_vars

\* C27 for the first ten SKUs of the table.
C27_ElasticityTableFirstTen ==
    [][(ModelPriceElasticity(NoSku) /\ ~historical_data.empty) =>
          \A i \in 1..Len(historical_data.skus) :
              LET row == historical_data.skus[i]
              IN  /\ (row.rows >= 10 /\ row.bins >= 3 /\ i <= 10)
                        => row.sku \in DOMAIN elasticity_models'
                  /\ row.rows < 10 => row.sku \notin DOMAIN elasticity_models']_vars

\* C30: calling model_price_elasticity for a single SKU leaves the
\* coefficients previously computed for all other SKUs in the elasticity
\* table, so that a later optimize_pricing_strategy for another SKU still
\* finds its coefficient.
C30_SingleSkuKeepsOthers ==
    [][\A product_sku \in RequestSkus :
          ModelPriceElasticity(product_sku) =>
              \A other \in DOMAIN elasticity_models \ {product_sku} :
                  /\ other \in DOMAIN elasticity_models'
                  /\ elasticity_models'[other] = elasticity_models[other]]_vars

(* Properties of the tax resolution                                        *)

\* The tax table in basis points: reagents shipped to the US are exempt,
\* then the country's rate, 10% for a country not in the table.
TableTaxRate(category, country) ==
    IF category = "reagents" /\ country = "US" THEN 0
    ELSE CASE country = "US" -> 875
           [] country = "CA" -> 1300
           [] country = "GB" -> 2000
           [] country = "DE" -> 1900
           [] OTHER -> 1000

\* C20: the tax rate of every invoice line is 0 for a reagent shipped to the
\* US, otherwise the destination country's table rate, and 10% for a
\* destination country not in the table; it lies in [0, 1].
C20_TaxRates ==
    Invoiced =>
        \A i \in 1..Len(inv.line_items) :
            /\ inv.line_items[i].tax_rate =
                  TableTaxRate(basket.items[i].product.category,
                               Upper(basket.destination_country))
            /\ inv.line_items[i].tax_rate >= 0
            /\ inv.line_items[i].tax_rate <= 10000

\* C20 for destination codes written as the table writes them.
C20_TaxRatesUpperCase ==
    (Invoiced /\ basket.destination_country = Upper(basket.destination_country)) =>
        \A i \in 1..Len(inv.line_items) :
            inv.line_items[i].tax_rate =
                TableTaxRate(basket.items[i].product.category, basket.destination_country)

----------------------------------------------------------------------------
(* Properties of the dynamic fields                                        *)

\* The service-fee rate of a customer segment, in basis points.
SegmentFeeRate(segment) ==
    CASE segment = "academic" -> 200
      [] segment = "biotech_startup" -> 250
      [] segment = "pharma_enterprise" -> 150
      [] segment = "research_institute" -> 200

\* C21: the dynamic fields of every invoice contain exactly one service_fee,
\* equal to subtotal x the customer segment's rate, and exactly one
\* rush_processing field of value 0; a handling_charge is present exactly
\* when some basket item is of category instruments or lab_equipment; an
\* international_processing fee is present exactly when the customer's
\* country differs from the destination country.
C21_DynamicFields ==
    Invoiced =>
        LET fs == inv.dynamic_fields
            fee == FieldsNamed(fs, "service_fee")
            rush == FieldsNamed(fs, "rush_processing")
        IN  /\ Cardinality(fee) = 1
            /\ \A i \in fee :
                  fs[i].field_value
                      = MulRate(inv.subtotal, SegmentFeeRate(basket.customer.segment))
            /\ Cardinality(rush) = 1
            /\ \A i \in rush : fs[i].field_value = 0
            /\ FieldsNamed(fs, "handling_charge") # {}
                  <=> \E i \in 1..Len(basket.items) :
                         basket.items[i].product.category
                             \in {"instruments", "lab_equipment"}
            /\ Cardinality(FieldsNamed(fs, "handling_charge")) <= 1
            /\ FieldsNamed(fs, "international_processing") # {}
                  <=> ~SameCountry(basket.customer.country, basket.destination_country)
            /\ Cardinality(FieldsNamed(fs, "international_processing")) <= 1

\* An invoice for a research institute in DE shipping lab equipment and a
\* reagent to the US: service fee, handling charge and international fee.
C21_Witness ==
    /\ Invoiced
    /\ basket.customer.segment = "research_institute"
    /\ basket.customer.country = "DE"
    /\ basket.destination_country = "us"
    /\ Len(basket.items) = 2
    /\ basket.items[1].product.category = "lab_equipment"
    /\ basket.items[2].product.category = "reagents"
    /\ FieldsNamed(inv.dynamic_fields, "handling_charge") # {}
    /\ FieldsNamed(inv.dynamic_fields, "international_processing") # {}
    /\ inv.dynamic_fields[1].field_value = 1 * Dollar + 60 * Cent

\* An invoice of a domestic basket without fragile items: the two fields
\* that are always present and no other fee.
C21_WitnessPlain ==
    /\ Invoiced
    /\ ~include_promotions
    /\ basket.customer.country = "US"
    /\ basket.destination_country = "us"
    /\ Len(basket.items) = 1
    /\ basket.items[1].product.category = "chemicals"
    /\ Len(inv.dynamic_fields) = 2

----------------------------------------------------------------------------
(* Properties of the promotional analysis                                  *)

\* C26: every result of model_promotional_impact, on the data-backed path
\* and on every fallback path, reports an overall revenue_lift > 0 and an
\* optimal discount range with 5 <= min < max <= 25, and every per-segment
\* quantity_lift is >= 0.
C26_PromotionalImpact ==
    promotional_impact.returned =>
        /\ promotional_impact.overall_impact.revenue_lift > 0
        /\ promotional_impact.overall_impact.optimal_discount_range.min >= 5000
        /\ promotional_impact.overall_impact.optimal_discount_range.min
              < promotional_impact.overall_impact.optimal_discount_range.max
        /\ promotional_impact.overall_impact.optimal_discount_range.max <= 25000
        /\ \A g \in DOMAIN promotional_impact.segment_impact :
              promotional_impact.segment_impact[g].quantity_lift >= 0

\* C26 with a revenue_lift of 0 allowed.
C26_PromotionalImpactNonNegative ==
    promotional_impact.returned =>
        /\ promotional_impact.overall_impact.revenue_lift >= 0
        /\ promotional_impact.overall_impact.optimal_discount_range.min >= 5000
        /\ promotional_impact.overall_impact.optimal_discount_range.min
              < promotional_impact.overall_impact.optimal_discount_range.max
        /\ promotional_impact.overall_impact.optimal_discount_range.max <= 25000
        /\ \A g \in DOMAIN promotional_impact.segment_impact :
              promotional_impact.segment_impact[g].quantity_lift >= 0

====
